---- MODULE Spec2Model ----
(***************************************************************************)
(* Model of the captcha-gated request pipeline of RR-Parser2:              *)
(*   main.py     start, initialization, parse,                             *)
(*               process_single_cadastral_number, send_requests,           *)
(*               add_all_data_to_dataframe                                 *)
(*   classes.py  RequestConfig.execute and its before/after methods        *)
(*   requests_config.py  the RequestConfig objects and the two sequences   *)
(*                                                                         *)
(* The program is single-threaded; `pc` is the position of the one thread. *)
(* Every HTTP request is one step of the model and its response is chosen  *)
(* by the environment (the server), as is the recognizer's answer.         *)
(* The task list is read front to back and never written, so the model     *)
(* draws each cadastral number when the loop reaches it.                   *)
(***************************************************************************)
EXTENDS Integers, Sequences, FiniteSets, TLC

\* ---------------------------------------------------------------- bounds
\* number of tasks (files) of one run of start
MaxTasks == 2
\* number of cadastral numbers of one task
MaxCads == 2
\* Nested re-executions of execute that the interpreter's stack allows.
\* get_captcha_after_method retries by calling self.execute again, so every
\* retry adds frames; CPython raises RecursionError (a RuntimeError) when its
\* recursion limit is reached.  The model scales the limit down.
RecursionLimit == 2

None == "None"

\* cadastral numbers of the input
Cads == {"c1", "c2"}
\* non-empty strings the recognizer may return
Candidates == {"a", "b"}
\* HTTP statuses the server may answer with
Statuses == {200, 201, 401, 500}

\* a status check that lets a server error pass
successful_codes_with_500 == {200, 401, 500}

\* main.py:190
successful_codes == {200, 401}

\* --------------------------------------------------- requests_config.py
Step(name, method, before, after) ==
    [name |-> name, method |-> method, use_proxies |-> TRUE,
     before_request_method |-> before, after_request_method |-> after]

initial_response == Step("initial_response", "GET", None, None)
information_response == Step("information_response", "GET", None, None)
object_type_codes_response ==
    Step("object_type_codes_response", "GET", None, "object_type_codes_after_method")
land_category_codes_response ==
    Step("land_category_codes_response", "GET", None, "land_category_codes_after_method")
land_permitted_usage_codes_response ==
    Step("land_permitted_usage_codes_response", "GET", None,
         "land_permitted_usage_codes_after_method")
room_purpose_codes_response ==
    Step("room_purpose_codes_response", "GET", None, "room_purpose_codes_after_method")
building_purpose_codes_response ==
    Step("building_purpose_codes_response", "GET", None,
         "building_purpose_codes_after_method")
get_captcha_response ==
    Step("get_captcha_response", "GET", None, "get_captcha_after_method")
on_response ==
    Step("on_response", "POST", "set_on_response_data", "process_on_response")

\* the sequence with two dictionary requests in the other order
initialization_sequence_swapped ==
    << initial_response, information_response, land_category_codes_response,
       object_type_codes_response, land_permitted_usage_codes_response,
       room_purpose_codes_response, building_purpose_codes_response >>

\* main.py:93-101
initialization_sequence ==
    << initial_response, information_response, object_type_codes_response,
       land_category_codes_response, land_permitted_usage_codes_response,
       room_purpose_codes_response, building_purpose_codes_response >>

\* a parsing sequence that fetches a dictionary for every cadastral number
parsing_sequence_with_dictionary ==
    << object_type_codes_response, get_captcha_response, on_response >>

\* a parsing sequence that sends the data request twice
parsing_sequence_twice == << get_captcha_response, on_response, on_response >>

\* main.py:155-158
parsing_sequence == << get_captcha_response, on_response >>

\* the class attribute each dictionary after-method stores into (classes.py:198-251)
DictAttribute ==
    [object_type_codes_after_method |-> "object_type_codes_dict",
     land_category_codes_after_method |-> "land_category_codes_dict",
     land_permitted_usage_codes_after_method |-> "land_permitted_usage_codes_dict",
     room_purpose_codes_after_method |-> "room_purpose_codes_dict",
     building_purpose_codes_after_method |-> "building_purpose_codes_dict"]

DictNames == {DictAttribute[m] : m \in DOMAIN DictAttribute}

\* ------------------------------------------------------ response bodies
\* A body is what response.json() makes of it: kind "notjson" (json() raises),
\* "list" (a JSON array, items its entries) or "object" (a JSON object, items
\* the value of its 'elements' key, empty when the key is absent).
Json(kind, items) == [kind |-> kind, items |-> items]

NotJson == Json("notjson", <<>>)
\* a JSON object without the expected keys (an error document)
ErrJson == Json("object", <<>>)

\* the list of {code, value} pairs the server holds for a dictionary
DictList(attr) == << [code |-> "1", value |-> attr] >>

\* A timestamp in epoch milliseconds, 1000 * sec + ms.  It is kept as the pair
\* because the checker's integers have 32 bits; none marks Python's None.
Millis(sec, ms) == [none |-> FALSE, sec |-> sec, ms |-> ms]

NoMillis == [none |-> TRUE, sec |-> 0, ms |-> 0]

\* one entry of an element's 'rights' list
ExampleRight ==
    [rightTypeDesc |-> "Sobstvennost", rightNumber |-> "77-77/001",
     rightRegDate |-> Millis(1577836800, 0)]

\* entries of an element's 'encumbrances' list: with and without a start date
Mortgage ==
    [typeDesc |-> "Ipoteka", encumbranceNumber |-> "77-77/002",
     startDate |-> Millis(1609459199, 999)]

Arrest ==
    [typeDesc |-> "Arest", encumbranceNumber |-> "77-77/003", startDate |-> NoMillis]

\* raw elements of the search answer; a missing field is None, a missing list
\* is empty
Elements ==
    { [cadNumber |-> "c1", status |-> "1", objType |-> "1", purpose |-> "1",
       landCategory |-> "1", area |-> "45,3",
       rights |-> << ExampleRight >>, encumbrances |-> <<>>],
      [cadNumber |-> "c2", status |-> "0", objType |-> "2", purpose |-> None,
       landCategory |-> None, area |-> "120",
       rights |-> << ExampleRight, ExampleRight >>,
       encumbrances |-> << Mortgage, Arrest >>],
      [cadNumber |-> "c2", status |-> None, objType |-> None, purpose |-> None,
       landCategory |-> None, area |-> None,
       rights |-> <<>>, encumbrances |-> <<>>] }

\* an entry of 'elements' that is not a JSON object (a string, a number), in
\* the shape of the entries that are
Scalar ==
    [cadNumber |-> "scalar", status |-> None, objType |-> None, purpose |-> None,
     landCategory |-> None, area |-> None, rights |-> <<>>, encumbrances |-> <<>>]

\* the bodies the server may send in answer to a step
BodiesFor(step) ==
    IF step.after_request_method \in DOMAIN DictAttribute
    THEN {NotJson, ErrJson,
          Json("list", DictList(DictAttribute[step.after_request_method]))}
    ELSE IF step.after_request_method = "process_on_response"
    THEN {NotJson, ErrJson} \cup {Json("object", <<e>>) : e \in Elements}
    ELSE {NotJson}

\* the HTTP answers to a step
ResponsesFor(step) == [status : Statuses, body : BodiesFor(step)]

NoResponse == [status |-> 0, body |-> NotJson]
NoData == [filterType |-> None, cadNumbers |-> <<>>, captcha |-> None]
NoRequest == [name |-> None, cad |-> None, payload |-> NoData, proxies |-> None]
\* no formatting function has been called
NoCall == [fn |-> None, arg |-> [desc |-> None, number |-> None, date |-> NoMillis],
           result |-> None]
NoVerification == [candidate |-> None, status |-> 0, cad |-> None]
NoTable == [columns |-> {}, rows |-> <<>>]
\* a challenge image that neither the recognizer nor a verification has used
NoUses == [recognized |-> 0, verified |-> 0]

VARIABLES
    pc,          \* position of the thread
    seq,         \* the request_list send_requests is running
    idx,         \* index of request_config in request_list
    depth,       \* nested re-executions of execute inside the current step
    response,    \* the response the current execute holds
    taskIdx,     \* tasks started by start
    cadIdx,      \* cadastral numbers of the current task started by parse
    cad_number,  \* RequestConfig.cad_number
    captcha,     \* RequestConfig.captcha
    dicts,       \* the five RequestConfig.*_codes_dict
    all_data,    \* RequestConfig.all_data
    data,        \* on_response.data
    saved,       \* the tasks whose table save_to_excel has written, in order
    df,          \* the table of the last of them
    err,         \* the exception that left start, None while there is none
    \* history variables, written by the actions and read only by properties
    req,         \* the HTTP request the last step sent, None when it sent none
    sends,       \* per step of request_list: requests sent for it
    redos,       \* re-executions asked for by the after-method in this request_list
    done_init,   \* names of the initialization steps that passed the status check
    verif,       \* last verification call of the current gate cycle
    last_verified, \* candidate of the most recent verification call that succeeded
    consumed,    \* data-fetch requests sent since that verification
    rejected,    \* first step of request_list answered with a status outside {200, 401}
    challenge,   \* calls that used the challenge image fetched last
    dict_fetches, \* per dictionary: requests sent for it in this run of start
    steps,       \* the request_list of a caller other than initialization and parse
    session,     \* names of the step objects whose self.session is set
    call,        \* the last call of a formatting function: its argument and result
    statuses,    \* the statuses the server gave to the legacy send_request, in order
    cookie_response, \* get_cookie's local: what send_request returned, None before
    cause,       \* what made the failing step fail
    failed       \* a fatal failure has happened

vars == << pc, seq, idx, depth, response, taskIdx, cadIdx, cad_number, captcha,
           dicts, all_data, data, saved, df, err, req, sends, redos, done_init,
           verif, last_verified, consumed, rejected, challenge, dict_fetches,
           steps, session, call, statuses, cookie_response, cause, failed >>

request_list == IF seq = "initialization" THEN initialization_sequence
                ELSE IF seq = "parsing" THEN parsing_sequence
                ELSE steps

request_config == request_list[idx]

NoSends == [i \in 1..Len(initialization_sequence) |-> 0]

Init ==
    /\ pc = "start"
    /\ seq = None
    /\ idx = 0
    /\ depth = 0
    /\ response = NoResponse
    /\ taskIdx = 0
    /\ cadIdx = 0
    /\ cad_number = None
    /\ captcha = None
    /\ dicts = [d \in DictNames |-> Json("list", <<>>)]
    /\ all_data = <<>>
    /\ data = NoData
    /\ saved = <<>>
    /\ df = NoTable
    /\ err = None
    /\ req = NoRequest
    /\ sends = NoSends
    /\ redos = 0
    /\ done_init = <<>>
    /\ verif = NoVerification
    /\ last_verified = None
    /\ consumed = 0
    /\ rejected = 0
    /\ challenge = NoUses
    /\ dict_fetches = [d \in DictNames |-> 0]
    /\ steps = <<>>
    /\ session = {}
    /\ call = NoCall
    /\ statuses = <<>>
    /\ cookie_response = NoResponse
    /\ cause = None
    /\ failed = FALSE


\* ------------------------------------------------------------ exceptions
\* a handler of process_single_cadastral_number that logs the failure of a
\* cadastral number and lets parse go on with the next one
RaiseIsolated(kind, why) ==
    /\ pc' = IF seq = "parsing" /\ pc # "next_cad" THEN "next_cad" ELSE "error"
    /\ err' = kind
    /\ cause' = why
    /\ failed' = TRUE

\* An exception that no handler absorbs: send_requests and
\* process_single_cadastral_number re-raise what they catch (main.py:213-216,
\* 164-166), initialization re-raises (main.py:108-110), parse, start and main
\* have no handler, so the exception leaves start and ends the run.
Raise(kind, why) ==
    /\ pc' = "error"
    /\ err' = kind
    /\ cause' = why
    /\ failed' = TRUE

\* the step goes on at position p
Goto(p) ==
    /\ pc' = p
    /\ UNCHANGED << err, cause, failed >>

\* a retry that runs the after-method again without sending the request again
RedoWithoutSend(why) ==
    IF depth < RecursionLimit
    THEN /\ Goto("after_request")
         /\ depth' = depth + 1
         /\ redos' = redos + 1
    ELSE /\ Raise("RecursionError", why)
         /\ UNCHANGED << depth, redos >>

\* a retry written as a loop: it re-executes without nesting
RedoInLoop(why) ==
    /\ Goto("execute")
    /\ depth' = depth
    /\ redos' = redos + 1

\* `return self.execute(self.session)` inside get_captcha_after_method
\* (classes.py:284, 303, 317): one more nested execute, or RecursionError when
\* the stack is exhausted.
Redo(why) ==
    IF depth < RecursionLimit
    THEN /\ Goto("execute")
         /\ depth' = depth + 1
         /\ redos' = redos + 1
    ELSE /\ Raise("RecursionError", why)
         /\ UNCHANGED << depth, redos >>

\* ------------------------------------------------------ classes.py hooks
\* a before-method that assigns nothing
set_on_response_data_skipped == data

\* classes.py:345-362
set_on_response_data ==
    [filterType |-> "cadastral", cadNumbers |-> << cad_number >>, captcha |-> captcha]

\* session.get / session.post raised instead of returning a response
ConnectionError == [status |-> -1, body |-> NotJson]

\* a verification that takes every status send_requests accepts for correct
CaptchaCorrectIfAcceptable(status) == status \in successful_codes

\* classes.py:336-343: the verification answer that makes the captcha correct
CaptchaCorrect(status) == status = 200

\* a challenge check that takes every status send_requests accepts
ChallengeFetchedIfAcceptable(status) == status \in successful_codes

\* classes.py:283: the challenge answer that get_captcha_after_method works on
ChallengeFetched(status) == status = 200

\* the names getattr finds on a step object and callable accepts
\* (classes.py:168-169, 188-189): the hook methods of RequestConfig
Methods ==
    DOMAIN DictAttribute
    \cup {"get_captcha_after_method", "process_on_response", "set_on_response_data"}

Callable(name) == name \in Methods

\* bool(response) is response.ok: the status is below 400
Truthy(r) == r.status < 400

\* an execute that returns whatever the after-method returned
execute_returns_hook_result(raw, new_response) == new_response

\* an execute that always returns its own response
execute_returns_raw(raw, new_response) == raw

\* classes.py:190-196: what execute returns when its request was answered with
\* raw and the after-method returned new_response (NoResponse for None)
execute_returns(raw, new_response) ==
    IF new_response # NoResponse /\ Truthy(new_response) THEN new_response ELSE raw

\* What the outermost execute returns when the innermost after-method returned
\* result: every enclosing after-method returns what the execute it called
\* returned (classes.py:284, 303, 317) and every enclosing execute, whose own
\* responses are raws (outermost first), applies classes.py:190-196 to it.
RECURSIVE Unwind(_, _)
Unwind(raws, result) ==
    IF Len(raws) = 0 THEN result
    ELSE Unwind(SubSeq(raws, 1, Len(raws) - 1),
                execute_returns(raws[Len(raws)], result))

\* main.py:205: the status check of send_requests
StatusSuccessful(status) == status \in successful_codes

\* classes.py:375-377
combined_dicts ==
    dicts["object_type_codes_dict"].items \o dicts["land_category_codes_dict"].items
    \o dicts["building_purpose_codes_dict"].items \o dicts["room_purpose_codes_dict"].items
    \o dicts["land_permitted_usage_codes_dict"].items

\* a lookup that falls back to the code itself when no pair has it
LookupOrCode(items, code) ==
    IF \E i \in 1..Len(items) : items[i].code = code
    THEN LET first == CHOOSE i \in 1..Len(items) :
                        /\ items[i].code = code
                        /\ \A j \in 1..(i - 1) : items[j].code # code
         IN items[first].value
    ELSE code

\* next((item['value'] for item in combined_dicts if item['code'] == code), None)
\* (classes.py:391-405)
Lookup(items, code) ==
    IF \E i \in 1..Len(items) : items[i].code = code
    THEN LET first == CHOOSE i \in 1..Len(items) :
                        /\ items[i].code = code
                        /\ \A j \in 1..(i - 1) : items[j].code # code
         IN items[first].value
    ELSE None

\* the object_info dictionary of process_on_response (classes.py:387-416),
\* with the fields the model's elements carry
\* --------------------------------------------------------- format_data.py
\* %d and %m of strftime: two digits
Pad2(n) == IF n < 10 THEN "0" \o ToString(n) ELSE ToString(n)

\* the proleptic Gregorian date of a day number counted from 1970-01-01, as
\* datetime computes it
civil_from_days(days) ==
    LET z == days + 719468
        era == z \div 146097
        doe == z - era * 146097
        yoe == (doe - doe \div 1460 + doe \div 36524 - doe \div 146096) \div 365
        doy == doe - (365 * yoe + yoe \div 4 - yoe \div 100)
        mp == (5 * doy + 2) \div 153
        m == IF mp < 10 THEN mp + 3 ELSE mp - 9
    IN [year |-> yoe + era * 400 + (IF m <= 2 THEN 1 ELSE 0),
        month |-> m,
        day |-> doy - (153 * mp + 2) \div 5 + 1]

\* datetime.fromtimestamp(seconds, tz) with a zone utcoffset seconds east of UTC
fromtimestamp(seconds, utcoffset) == civil_from_days((seconds + utcoffset) \div 86400)

\* date_object.strftime('%d.%m.%Y')
strftime(date) ==
    Pad2(date.day) \o "." \o Pad2(date.month) \o "." \o ToString(date.year)

\* a conversion in the zone of Moscow instead of UTC
get_normal_date_local(millis) ==
    IF millis.none THEN None ELSE strftime(fromtimestamp(millis.sec, 10800))

\* format_data.py:70-95; millis / 1000.0 is sec and the fraction ms / 1000
get_normal_date(millis) ==
    IF millis.none THEN None ELSE strftime(fromtimestamp(millis.sec, 0))

\* a template without the registration date
format_rights_without_date(right) ==
    right.rightTypeDesc \o ", " \o right.rightNumber

\* format_data.py:17-39; None is printed as "None" by the f-string
format_rights(right) ==
    right.rightTypeDesc \o ", " \o right.rightNumber \o " ot "
        \o get_normal_date(right.rightRegDate)

\* format_data.py:42-67; a start date of None or 0 is falsy
format_encumbrances(encumbrance) ==
    LET start_date_millis == encumbrance.startDate
        start_date ==
            IF ~start_date_millis.none
               /\ (start_date_millis.sec # 0 \/ start_date_millis.ms # 0)
            THEN get_normal_date(start_date_millis) ELSE ""
        formatted_encumbrance ==
            encumbrance.typeDesc \o " " \o encumbrance.encumbranceNumber
    IN IF start_date # "" THEN formatted_encumbrance \o " ot " \o start_date
       ELSE formatted_encumbrance

\* ' '.join(lines): the lines separated by a blank
RECURSIVE JoinWithBlank(_)
JoinWithBlank(lines) ==
    IF Len(lines) = 1 THEN lines[1]
    ELSE lines[1] \o " " \o JoinWithBlank(Tail(lines))

\* '\n'.join(lines)
RECURSIVE Join(_)
Join(lines) ==
    IF Len(lines) = 1 THEN lines[1]
    ELSE lines[1] \o "\n" \o Join(Tail(lines))

\* isinstance(element, dict)
IsDict(element) == element # Scalar

\* a choice of every object of the list
every_element_of(elements) == SelectSeq(elements, IsDict)

\* classes.py:382-383: the first entry if it is an object, as a list of at most
\* one element
element_of(elements) ==
    IF elements # <<>> /\ IsDict(elements[1]) THEN << elements[1] >> ELSE <<>>

\* classes.py:387-416
ObjectInfo(element) ==
    [cadNumber |-> element.cadNumber,
     status |-> IF element.status = "1" THEN "Aktualno" ELSE "Pogasheno",
     objType |-> Lookup(combined_dicts, element.objType),
     purpose |-> Lookup(combined_dicts, element.purpose),
     landCategory |-> Lookup(combined_dicts, element.landCategory),
     area |-> element.area,
     rights |->
        IF element.rights # <<>>
        THEN Join([i \in 1..Len(element.rights) |-> format_rights(element.rights[i])])
        ELSE None,
     encumbrances |->
        IF element.encumbrances # <<>>
        THEN Join([i \in 1..Len(element.encumbrances) |->
                      format_encumbrances(element.encumbrances[i])])
        ELSE None]

\* ------------------------------------------------ RequestConfig.execute
\* classes.py:161-184: the before-method, then the request
\* a comparison of the method as it is written
as_written(method) == method

\* str.upper() of the method names
upper(method) ==
    CASE method = "get" -> "GET"
      [] method = "post" -> "POST"
      [] method = "put" -> "PUT"
      [] OTHER -> method

Execute ==
    /\ pc = "execute"
    /\ data' = IF request_config.before_request_method = "set_on_response_data"
               THEN set_on_response_data ELSE data
    /\ IF upper(request_config.method) \notin {"GET", "POST"}
       THEN /\ Raise("ValueError", "method")
            /\ req' = NoRequest
            /\ UNCHANGED << response, sends, consumed, rejected, challenge,
                            dict_fetches >>
       ELSE /\ req' = [name |-> request_config.name, cad |-> cad_number,
                       payload |-> IF upper(request_config.method) = "POST" THEN data'
                                   ELSE NoData,
                       proxies |-> IF request_config.use_proxies
                                   THEN "session.proxies" ELSE "none"]
            /\ sends' = [sends EXCEPT ![idx] = @ + 1]
            /\ consumed' = IF request_config.name = "on_response"
                           THEN consumed + 1 ELSE consumed
            /\ dict_fetches' =
                 IF request_config.after_request_method \in DOMAIN DictAttribute
                 THEN [dict_fetches EXCEPT
                         ![DictAttribute[request_config.after_request_method]] = @ + 1]
                 ELSE dict_fetches
            /\ \E r \in ResponsesFor(request_config) \cup {ConnectionError} :
                 IF r = ConnectionError
                 THEN /\ Raise("ConnectionError", "transport")
                      /\ UNCHANGED << response, rejected, challenge >>
                 ELSE /\ Goto("after_request")
                      /\ response' = r
                      /\ challenge' =
                           IF request_config.after_request_method =
                                  "get_captcha_after_method"
                           THEN NoUses ELSE challenge
                      /\ rejected' = IF rejected = 0 /\ r.status \notin {200, 401}
                                     THEN idx ELSE rejected
    /\ session' = session \cup {request_config.name}
    /\ UNCHANGED << steps, call, statuses, cookie_response >>
    /\ UNCHANGED << seq, idx, depth, taskIdx, cadIdx, cad_number, captcha, dicts,
                    all_data, saved, df, redos, done_init, verif, last_verified >>

\* classes.py:186-196 for a step without after-method: execute returns the response
NoAfterMethod ==
    /\ pc = "after_request"
    /\ ~Callable(request_config.after_request_method)
    /\ Goto("check")
    /\ response' = execute_returns(response, NoResponse)
    /\ req' = NoRequest
    /\ UNCHANGED << challenge, dict_fetches, steps, session, call, statuses, cookie_response >>
    /\ UNCHANGED << seq, idx, depth, taskIdx, cadIdx, cad_number, captcha,
                    dicts, all_data, data, saved, df,
                    sends, redos, done_init, verif,
                    last_verified, consumed, rejected >>

\* a store that adds the entries to those the attribute holds
save_dict_extending(attributes, json_data, attribute_name) ==
    [attributes EXCEPT ![attribute_name] = Json(json_data.kind, @.items \o json_data.items)]

\* classes.py:265-266: setattr(RequestConfig, attribute_name, response.json())
save_dict(attributes, json_data, attribute_name) ==
    [attributes EXCEPT ![attribute_name] = json_data]

\* the five *_codes_after_method and _save_dict (classes.py:198-267)
SaveDict ==
    /\ pc = "after_request"
    /\ request_config.after_request_method \in DOMAIN DictAttribute
    /\ IF response.body.kind = "notjson"
       THEN Raise("JSONDecodeError", "body") /\ UNCHANGED dicts
       ELSE /\ dicts' = save_dict(dicts, response.body,
                                   DictAttribute[request_config.after_request_method])
            /\ Goto("check")
    /\ req' = NoRequest
    /\ UNCHANGED << challenge, dict_fetches, steps, session, call, statuses, cookie_response >>
    /\ UNCHANGED << seq, idx, depth, response, taskIdx, cadIdx, cad_number, captcha,
                    all_data, data, saved, df,
                    sends, redos, done_init, verif,
                    last_verified, consumed, rejected >>

\* get_captcha_after_method up to the verification (classes.py:283-312):
\* the status check, the image file, the recognizer
GetCaptchaAfterMethod ==
    /\ pc = "after_request"
    /\ request_config.after_request_method = "get_captcha_after_method"
    /\ UNCHANGED << steps, session, call, statuses, cookie_response >>
    /\ challenge' = IF ~ChallengeFetched(response.status) THEN challenge
                    ELSE [challenge EXCEPT !.recognized = @ + 1]
    /\ IF ~ChallengeFetched(response.status)
       THEN Redo("challenge_status") /\ UNCHANGED captcha
       ELSE \E captcha_text \in Candidates \cup {"", "RuntimeError"} :
              IF captcha_text = "RuntimeError"
              THEN /\ Raise("RuntimeError", "recognizer_raised")
                   /\ UNCHANGED << captcha, depth, redos >>
              ELSE IF captcha_text = ""
              THEN Redo("recognition_failed") /\ UNCHANGED captcha
              ELSE /\ captcha' = captcha_text
                   /\ Goto("test_captcha")
                   /\ UNCHANGED << depth, redos >>
    /\ req' = NoRequest
    /\ UNCHANGED << seq, idx, response, taskIdx, cadIdx, cad_number, dicts, all_data,
                    data, saved, df, dict_fetches,
                    sends, done_init, verif, last_verified, consumed, rejected >>

\* the rest of get_captcha_after_method and _test_captcha (classes.py:314-343);
\* the history variables take a 2xx answer for a successful verification
TestCaptcha ==
    /\ pc = "test_captcha"
    /\ req' = [name |-> "captcha_verification", cad |-> cad_number,
               payload |-> [NoData EXCEPT !.captcha = captcha],
               proxies |-> "session.proxies"]
    /\ UNCHANGED << steps, session, call, statuses, cookie_response >>
    /\ challenge' = [challenge EXCEPT !.verified = @ + 1]
    /\ \E status \in Statuses \cup {ConnectionError.status} :
         IF status = ConnectionError.status
         THEN /\ Raise("ConnectionError", "transport")
              /\ UNCHANGED << depth, redos, verif, last_verified, consumed, response >>
         ELSE /\ verif' = [candidate |-> captcha, status |-> status, cad |-> cad_number]
              /\ last_verified' = IF status \in 200..299 THEN captcha ELSE last_verified
              /\ consumed' = IF status \in 200..299 THEN 0 ELSE consumed
              /\ IF CaptchaCorrect(status)
                 THEN /\ Goto("check")
                      /\ \E raws \in [1..depth -> ResponsesFor(request_config)] :
                           response' = Unwind(raws, execute_returns(response, response))
                      /\ UNCHANGED << depth, redos >>
                 ELSE Redo("verification_failed") /\ UNCHANGED response
    /\ UNCHANGED << seq, idx, taskIdx, cadIdx, cad_number, captcha, dicts,
                    all_data, data, saved, df, sends, done_init, rejected,
                    dict_fetches >>

\* classes.py:364-420
ProcessOnResponse ==
    /\ pc = "after_request"
    /\ request_config.after_request_method = "process_on_response"
    /\ IF \E d \in DictNames : dicts[d].kind # "list"
       THEN Raise("TypeError", "dictionary") /\ UNCHANGED all_data
       ELSE IF response.body.kind = "notjson"
       THEN Raise("JSONDecodeError", "body") /\ UNCHANGED all_data
       ELSE IF response.body.kind # "object"
       THEN Raise("AttributeError", "body") /\ UNCHANGED all_data
       ELSE LET elements == element_of(response.body.items)
            IN /\ all_data' = all_data \o [i \in 1..Len(elements) |->
                                              ObjectInfo(elements[i])]
               /\ Goto("check")
    /\ req' = NoRequest
    /\ UNCHANGED << challenge, dict_fetches, steps, session, call, statuses, cookie_response >>
    /\ UNCHANGED << seq, idx, depth, response, taskIdx, cadIdx, cad_number, captcha,
                    dicts, data, saved, df,
                    sends, redos, done_init, verif,
                    last_verified, consumed, rejected >>


\* ------------------------------------------------ main.py send_requests
\* main.py:192-216: the status check after execute returned, and the loop
SendRequestsCheck ==
    /\ pc = "check"
    /\ IF StatusSuccessful(response.status)
       THEN /\ done_init' = IF seq = "initialization"
                            THEN Append(done_init, request_config.name)
                            ELSE done_init
            /\ depth' = 0
            /\ response' = NoResponse
            /\ IF idx < Len(request_list)
               THEN Goto("execute") /\ idx' = idx + 1
               ELSE /\ Goto(IF seq = "initialization" THEN "next_task"
                            ELSE IF seq = "parsing" THEN "next_cad"
                            ELSE "returned")
                    /\ idx' = idx
       ELSE /\ Raise("RequestException", "status")
            /\ UNCHANGED << done_init, depth, idx, response >>
    /\ req' = NoRequest
    /\ UNCHANGED << challenge, dict_fetches, steps, session, call, statuses, cookie_response >>
    /\ UNCHANGED << seq, taskIdx, cadIdx, cad_number, captcha, dicts,
                    all_data, data, saved, df,
                    sends, redos, verif, last_verified,
                    consumed, rejected >>

\* ------------------------------------------- add_all_data_to_dataframe
\* the characters of the area strings of Elements
Chars(s) ==
    CASE s = "45,3" -> << "4", "5", ",", "3" >>
      [] s = "1234,56" -> << "1", "2", "3", "4", ",", "5", "6" >>
      [] s = "120" -> << "1", "2", "0" >>

\* str.replace(old, new) on single characters
StrReplace(chars, old, new) ==
    [i \in 1..Len(chars) |-> IF chars[i] = old THEN new ELSE chars[i]]

DigitValue(c) ==
    CASE c = "0" -> 0 [] c = "1" -> 1 [] c = "2" -> 2 [] c = "3" -> 3 [] c = "4" -> 4
      [] c = "5" -> 5 [] c = "6" -> 6 [] c = "7" -> 7 [] c = "8" -> 8 [] c = "9" -> 9

RECURSIVE DigitsValue(_)
DigitsValue(ds) ==
    IF ds = <<>> THEN 0
    ELSE 10 * DigitsValue(SubSeq(ds, 1, Len(ds) - 1)) + DigitValue(ds[Len(ds)])

\* float() of a decimal literal with at most two fractional digits, in hundredths
ToFloat(chars) ==
    LET dots == {i \in 1..Len(chars) : chars[i] = "."}
        dot == IF dots = {} THEN Len(chars) + 1 ELSE CHOOSE i \in dots : TRUE
        frac == SubSeq(chars, dot + 1, Len(chars))
    IN 100 * DigitsValue(SubSeq(chars, 1, dot - 1))
       + (IF Len(frac) = 0 THEN 0
          ELSE IF Len(frac) = 1 THEN 10 * DigitsValue(frac)
          ELSE DigitsValue(SubSeq(frac, 1, 2)))

\* a float of the table: NaN, or v hundredths
NaN == [nan |-> TRUE, v |-> 0]

\* df['area'].str.replace(',', '.').astype(float) for one cell (main.py:290)
AreaToFloat(area) ==
    IF area = None THEN NaN
    ELSE [nan |-> FALSE, v |-> ToFloat(StrReplace(Chars(area), ",", "."))]

Fields ==
    {"cadNumber", "status", "objType", "purpose", "landCategory", "area", "rights",
     "encumbrances"}

\* DataFrame(all_data).dropna(axis=1, how='all') (main.py:283): the columns kept
Columns(records) ==
    {f \in Fields : \E i \in 1..Len(records) : records[i][f] # None}

\* sort_values(by=area, ascending=False) (main.py:294): non-increasing, NaN last;
\* the order of equal keys is not fixed by the default sort
IsSortedDescending(rows) ==
    \A i, j \in 1..Len(rows) :
        i < j => \/ rows[j].area.nan
                 \/ (~rows[i].area.nan /\ rows[i].area.v >= rows[j].area.v)

Orderings(rows) ==
    LET n == Len(rows)
        perms == {p \in [1..n -> 1..n] : \A i, j \in 1..n : p[i] = p[j] => i = j}
    IN {[i \in 1..n |-> rows[p[i]]] : p \in perms}

\* the tables add_all_data_to_dataframe may return for a non-empty all_data
\* whose area column survives (main.py:283-297)
Tables(records) ==
    LET rows == [i \in 1..Len(records) |->
                    [records[i] EXCEPT !.area = AreaToFloat(records[i].area)]]
    IN {[columns |-> Columns(records), rows |-> t] :
            t \in {o \in Orderings(rows) : IsSortedDescending(o)}}

\* What main.py:283-297 do when the records are the rows of a table that these
\* lines produced.  dropna keeps the area column unless every area is NaN; the
\* column holds floats since astype(float), and Series.str exists for columns
\* of strings only: `.str` raises AttributeError on a float64 column.
AddTableToDataframe(table) ==
    IF table.rows = <<>>
    THEN [error |-> None, tables |-> {NoTable}]
    ELSE IF \A i \in 1..Len(table.rows) : table.rows[i].area.nan
    THEN [error |-> "KeyError", tables |-> {}]
    ELSE [error |-> "AttributeError", tables |-> {}]

\* ----------------------------------------------------- main.py start
\* main.py:359-362 and 89-105: the session, then the initialization sequence
Start ==
    /\ pc = "start"
    /\ Goto("execute")
    /\ seq' = "initialization"
    /\ idx' = 1
    /\ depth' = 0
    /\ sends' = NoSends
    /\ redos' = 0
    /\ rejected' = 0
    /\ req' = NoRequest
    /\ UNCHANGED << challenge, dict_fetches, steps, session, call, statuses, cookie_response >>
    /\ UNCHANGED << response, taskIdx, cadIdx, cad_number, captcha, dicts, all_data,
                    data, saved, df, done_init, verif, last_verified, consumed >>

\* main.py:365-370, 129-131: the next task of the list; df is the loop's local,
\* dead once the previous task's table has been written
StartTask ==
    /\ pc = "next_task"
    /\ taskIdx < MaxTasks
    /\ Goto("next_cad")
    /\ taskIdx' = taskIdx + 1
    /\ cadIdx' = 0
    /\ df' = NoTable
    /\ req' = NoRequest
    /\ UNCHANGED << challenge, dict_fetches, steps, session, call, statuses, cookie_response >>
    /\ UNCHANGED << seq, idx, depth, response, cad_number, captcha, dicts, all_data,
                    data, saved, sends, redos, done_init, verif, last_verified,
                    consumed, rejected >>

\* main.py:133-134, 151-162: the next cadastral number of the task
ParseNext ==
    /\ pc = "next_cad"
    /\ cadIdx < MaxCads
    /\ \E cad \in Cads : cad_number' = cad
    /\ Goto("execute")
    /\ cadIdx' = cadIdx + 1
    /\ seq' = "parsing"
    /\ idx' = 1
    /\ depth' = 0
    /\ sends' = NoSends
    /\ redos' = 0
    /\ verif' = NoVerification
    /\ rejected' = 0
    /\ req' = NoRequest
    /\ challenge' = NoUses
    /\ UNCHANGED << dict_fetches, steps, session, call, statuses, cookie_response >>
    /\ UNCHANGED << response, taskIdx, captcha, dicts, all_data, data, saved, df,
                    done_init, last_verified, consumed >>

\* a finalisation that keeps the buffer
clear_nothing(records) == records

\* main.py:287: list.clear()
clear(records) == <<>>

\* main.py:136, 373-381: the task's list is exhausted; the table and its output
FinishTask ==
    /\ pc = "next_cad"
    /\ IF all_data = <<>>
       THEN \* df is None and save_to_excel calls None.to_excel
            /\ Raise("AttributeError", "no_data")
            /\ UNCHANGED << all_data, saved, df >>
       ELSE /\ all_data' = clear(all_data)
            /\ IF "area" \notin Columns(all_data)
               THEN Raise("KeyError", "area") /\ UNCHANGED << saved, df >>
               ELSE /\ df' \in Tables(all_data)
                    /\ saved' = Append(saved, taskIdx)
                    /\ Goto("next_task")
    /\ req' = NoRequest
    /\ UNCHANGED << challenge, dict_fetches, steps, session, call, statuses, cookie_response >>
    /\ UNCHANGED << seq, idx, depth, response, taskIdx, cadIdx, cad_number, captcha,
                    dicts, data, sends, redos, done_init, verif, last_verified,
                    consumed, rejected >>

\* main.py:383: every task is done
Finish ==
    /\ pc = "next_task"
    /\ taskIdx >= 1
    /\ Goto("done")
    /\ req' = NoRequest
    /\ UNCHANGED << challenge, dict_fetches, steps, session, call, statuses, cookie_response >>
    /\ UNCHANGED << seq, idx, depth, response, taskIdx, cadIdx, cad_number, captcha,
                    dicts, all_data, data, saved, df,
                    sends, redos, done_init, verif,
                    last_verified, consumed, rejected >>

Next ==
    \/ Start
    \/ Execute
    \/ NoAfterMethod
    \/ SaveDict
    \/ GetCaptchaAfterMethod
    \/ TestCaptcha
    \/ ProcessOnResponse
    \/ SendRequestsCheck
    \/ StartTask
    \/ ParseNext
    \/ FinishTask
    \/ Finish

Spec == Init /\ [][Next]_vars

\* ------------------------------------ process_on_response on any cache state
\* The record built from a raw element is a function of the element and of the
\* five cached lists.  DataSpec starts where the after-method of on_response is
\* about to run and draws the cached lists, the raw element and the buffer from
\* bounded sets; its steps are the program's.

\* Lists of pairs a dictionary request may have stored.  The server chooses the
\* codes; nothing in the program keeps the codes of two dictionaries apart.
DictPairs ==
    [object_type_codes_dict |->
        << [code |-> "1", value |-> "Zdanie"], [code |-> "2", value |-> "Pomeshchenie"] >>,
     land_category_codes_dict |->
        << [code |-> "1", value |-> "Zemli naselennyh punktov"] >>,
     building_purpose_codes_dict |->
        << [code |-> "4", value |-> "Nezhiloe zdanie"] >>,
     room_purpose_codes_dict |->
        << [code |-> "4", value |-> "Nezhiloe pomeshchenie"] >>,
     land_permitted_usage_codes_dict |->
        << [code |-> "5", value |-> "Dlya zhilishchnogo stroitelstva"] >>]

\* a cached list: still the class attribute's [] (classes.py:80-84), or stored
DictStates ==
    {ds \in [DictNames -> {Json("list", <<>>)} \cup
                           {Json("list", DictPairs[d]) : d \in DictNames}] :
        \A d \in DictNames : ds[d].items \in {<<>>, DictPairs[d]}}

\* raw elements: any of the fields may be missing, any code may be unknown
RawElements ==
    [cadNumber : {"c1"}, status : {"1"}, objType : {"1", "2", None},
     purpose : {"4", None}, landCategory : {"1", "9", None},
     area : {"1234,56", "120", None},
     rights : {<<>>, << ExampleRight >>}, encumbrances : {<<>>}]

\* 'elements' lists of two entries, and lists whose first entry is no object
ElementLists ==
    {<< a, b >> : a, b \in Elements \cup {Scalar}} \cup {<< Scalar >>}

\* requests_functions.py:148-153
get_value_by_code(code, dictionary) ==
    IF \E i \in 1..Len(dictionary) : dictionary[i].code = code
    THEN LET first == CHOOSE i \in 1..Len(dictionary) :
                        /\ dictionary[i].code = code
                        /\ \A j \in 1..(i - 1) : dictionary[j].code # code
         IN dictionary[first].value
    ELSE None

\* requests_functions.py:133-134 and 138: the object types whose purpose is a
\* building purpose, and those whose purpose is a room purpose
BuildingLike ==
    {"Zdanie", "Sooruzhenie", "Obekt nezavershennogo stroitelstva",
     "Predpriyatie kak imushchestvennyj kompleks", "Edinyj nedvizhimyj kompleks"}

RoomLike == {"Pomeshchenie", "Mashino-mesto"}

InitData ==
    /\ pc = "after_request"
    /\ seq = "parsing"
    /\ idx = Len(parsing_sequence)
    /\ depth = 0
    /\ response \in [status : {200},
                      body : {ErrJson} \cup {Json("object", <<e>>) : e \in RawElements}
                                      \cup {Json("object", l) : l \in ElementLists}]
    /\ taskIdx = 1
    /\ cad_number = "c1"
    /\ captcha = "a"
    /\ dicts \in DictStates
    /\ all_data \in {<<>>} \cup {<< ObjectInfo(e) >> : e \in Elements}
    /\ cadIdx = Len(all_data) + 1
    /\ data = [filterType |-> "cadastral", cadNumbers |-> << "c1" >>, captcha |-> "a"]
    /\ saved = <<>>
    /\ df = NoTable
    /\ err = None
    /\ req = NoRequest
    /\ sends = [NoSends EXCEPT ![1] = 1, ![2] = 1]
    /\ redos = 0
    /\ done_init = << "initial_response", "information_response",
                      "object_type_codes_response", "land_category_codes_response",
                      "land_permitted_usage_codes_response",
                      "room_purpose_codes_response", "building_purpose_codes_response" >>
    /\ verif = [candidate |-> "a", status |-> 200, cad |-> "c1"]
    /\ last_verified = "a"
    /\ consumed = 1
    /\ rejected = 0
    /\ challenge = [recognized |-> 1, verified |-> 1]
    /\ dict_fetches = [d \in DictNames |-> 1]
    /\ steps = <<>>
    /\ session = {initialization_sequence[i].name :
                      i \in 1..Len(initialization_sequence)}
                 \cup {get_captcha_response.name, on_response.name}
    /\ call = NoCall
    /\ statuses = <<>>
    /\ cookie_response = NoResponse
    /\ cause = None
    /\ failed = FALSE

NextData ==
    \/ ProcessOnResponse
    \/ SendRequestsCheck
    \/ FinishTask

DataSpec == InitData /\ [][NextData]_vars

\* ------------------------------------------- send_requests on any step list
\* send_requests and execute take any list of RequestConfig objects.  StepSpec
\* runs them on the lists of a bounded set of step objects: every method, proxy
\* flag and hook name a caller may have configured.
StepChoices ==
    [name : {"step"}, method : {"GET", "POST", "post", "PUT"}, use_proxies : BOOLEAN,
     before_request_method : {None, "set_on_response_data", "no_such_method"},
     after_request_method : {None, "no_such_method", "object_type_codes_after_method",
                             "get_captcha_after_method", "process_on_response"}]

StepLists ==
    {<< s >> : s \in StepChoices} \cup {<< s, information_response >> : s \in StepChoices}
        \cup {<< s, s >> : s \in StepChoices}

InitSteps ==
    /\ pc = "execute"
    /\ seq = "steps"
    /\ steps \in StepLists
    /\ idx = 1
    /\ depth = 0
    /\ response = NoResponse
    /\ taskIdx = 0
    /\ cadIdx = 0
    /\ cad_number = "c1"
    /\ captcha = None
    /\ dicts = [d \in DictNames |-> Json("list", <<>>)]
    /\ all_data = <<>>
    /\ data = NoData
    /\ saved = <<>>
    /\ df = NoTable
    /\ err = None
    /\ req = NoRequest
    /\ sends = NoSends
    /\ redos = 0
    /\ done_init = <<>>
    /\ verif = NoVerification
    /\ last_verified = None
    /\ consumed = 0
    /\ rejected = 0
    /\ challenge = NoUses
    /\ dict_fetches = [d \in DictNames |-> 0]
    /\ session = {}
    /\ call = NoCall
    /\ statuses = <<>>
    /\ cookie_response = NoResponse
    /\ cause = None
    /\ failed = FALSE

NextSteps ==
    \/ Execute
    \/ NoAfterMethod
    \/ SaveDict
    \/ GetCaptchaAfterMethod
    \/ TestCaptcha
    \/ ProcessOnResponse
    \/ SendRequestsCheck

StepSpec == InitSteps /\ [][NextSteps]_vars

\* ------------------------------------------- the functions of format_data.py
\* the days, counted from 1970-01-01, whose timestamps are formatted: the ends
\* of months and years, leap days
Days == {0, 58, 59, 789, 10956, 11016, 18261, 18262, 18321, 18627, 18628}

\* first and last millisecond, and a second inside, of every day of Days
MillisInputs ==
    {NoMillis} \cup {Millis(d * 86400 + s, ms) : d \in Days, s \in {0, 1, 86399},
                                                ms \in {0, 999}}

\* the arguments of a formatting function; an absent text is ''
FormatArgs == [desc : {"Sobstvennost", ""}, number : {"77-77/001"}, date : MillisInputs]

InitFormat ==
    /\ pc = "format"
    /\ seq = "steps"
    /\ steps = <<>>
    /\ idx = 0
    /\ depth = 0
    /\ response = NoResponse
    /\ taskIdx = 0
    /\ cadIdx = 0
    /\ cad_number = None
    /\ captcha = None
    /\ dicts = [d \in DictNames |-> Json("list", <<>>)]
    /\ all_data = <<>>
    /\ data = NoData
    /\ saved = <<>>
    /\ df = NoTable
    /\ err = None
    /\ req = NoRequest
    /\ sends = NoSends
    /\ redos = 0
    /\ done_init = <<>>
    /\ verif = NoVerification
    /\ last_verified = None
    /\ consumed = 0
    /\ rejected = 0
    /\ challenge = NoUses
    /\ dict_fetches = [d \in DictNames |-> 0]
    /\ session = {}
    /\ call = NoCall
    /\ statuses = <<>>
    /\ cookie_response = NoResponse
    /\ cause = None
    /\ failed = FALSE

\* a call changes the record of the call and nothing of the program's state
Called(fn, arg, result) ==
    /\ pc = "format"
    /\ call' = [fn |-> fn, arg |-> arg, result |-> result]
    /\ UNCHANGED << pc, seq, idx, depth, response, taskIdx, cadIdx, cad_number,
                    captcha, dicts, all_data, data, saved, df, err, req, sends,
                    redos, done_init, verif, last_verified, consumed, rejected,
                    challenge, dict_fetches, steps, session, statuses,
                    cookie_response, cause, failed >>

GetNormalDate ==
    \E millis \in MillisInputs :
        Called("get_normal_date", [desc |-> None, number |-> None, date |-> millis],
               get_normal_date(millis))

FormatRights ==
    \E a \in FormatArgs :
        Called("format_rights", a,
               format_rights([rightTypeDesc |-> a.desc, rightNumber |-> a.number,
                              rightRegDate |-> a.date]))

FormatEncumbrances ==
    \E a \in FormatArgs :
        Called("format_encumbrances", a,
               format_encumbrances([typeDesc |-> a.desc,
                                    encumbranceNumber |-> a.number,
                                    startDate |-> a.date]))

NextFormat ==
    \/ GetNormalDate
    \/ FormatRights
    \/ FormatEncumbrances

FormatSpec == InitFormat /\ [][NextFormat]_vars

\* ------------------------------------------------- requests_functions.py
\* the statuses the server gives to the legacy requests
LegacyStatuses == {200, 401, 406, 403, 500, 503}

\* requests_functions.py:49-51: the value that `send_request(...)` followed by
\* `return None` gives the caller, frames calls above the one that returned
\* result
returned_through(frames, result) == IF frames = 0 THEN result ELSE NoResponse

\* get_cookie has called send_request('GET', 'cookie', None)
InitLegacy ==
    /\ pc = "send_request"
    /\ seq = "steps"
    /\ steps = <<>>
    /\ idx = 0
    /\ depth = 0
    /\ response = NoResponse
    /\ taskIdx = 0
    /\ cadIdx = 0
    /\ cad_number = None
    /\ captcha = None
    /\ dicts = [d \in DictNames |-> Json("list", <<>>)]
    /\ all_data = <<>>
    /\ data = NoData
    /\ saved = <<>>
    /\ df = NoTable
    /\ err = None
    /\ req = NoRequest
    /\ sends = NoSends
    /\ redos = 0
    /\ done_init = <<>>
    /\ verif = NoVerification
    /\ last_verified = None
    /\ consumed = 0
    /\ rejected = 0
    /\ challenge = NoUses
    /\ dict_fetches = [d \in DictNames |-> 0]
    /\ session = {}
    /\ call = NoCall
    /\ statuses = <<>>
    /\ cookie_response = NoResponse
    /\ cause = None
    /\ failed = FALSE

\* requests_functions.py:33-51: the request, the status test, and the retry by
\* a nested call after time.sleep(5)
send_request ==
    /\ pc = "send_request"
    /\ req' = [name |-> "cookie", cad |-> None, payload |-> NoData,
               proxies |-> "proxy_url"]
    /\ \E r \in [status : LegacyStatuses, body : {NotJson}] \cup {ConnectionError} :
         IF r = ConnectionError
         THEN /\ Raise("ConnectionError", "transport")
              /\ UNCHANGED << response, statuses, depth, redos >>
         ELSE /\ response' = r
              /\ statuses' = Append(statuses, r.status)
              /\ IF r.status \in {200, 401, 406}
                 THEN Goto("return") /\ UNCHANGED << depth, redos >>
                 ELSE IF depth < RecursionLimit
                 THEN /\ Goto("send_request")
                      /\ depth' = depth + 1
                      /\ redos' = redos + 1
                 ELSE /\ Raise("RecursionError", "status")
                      /\ UNCHANGED << depth, redos >>
    /\ UNCHANGED << seq, idx, taskIdx, cadIdx, cad_number, captcha, dicts, all_data,
                    data, saved, df, sends, done_init, verif, last_verified,
                    consumed, rejected, challenge, dict_fetches, steps, session,
                    call, cookie_response >>

\* requests_functions.py:47 and 50-51, 62: the call that got the acceptable
\* status returns its response, every call above it returns None
send_request_returns ==
    /\ pc = "return"
    /\ cookie_response' = returned_through(depth, response)
    /\ depth' = 0
    /\ Goto("get_cookie")
    /\ req' = NoRequest
    /\ UNCHANGED << seq, idx, response, taskIdx, cadIdx, cad_number, captcha, dicts,
                    all_data, data, saved, df, sends, redos, done_init, verif,
                    last_verified, consumed, rejected, challenge, dict_fetches,
                    steps, session, call, statuses >>

\* requests_functions.py:64-69: the cookies of the response go to the headers
get_cookie ==
    /\ pc = "get_cookie"
    /\ IF cookie_response = NoResponse
       THEN Raise("AttributeError", "cookies")
       ELSE Goto("done")
    /\ req' = NoRequest
    /\ UNCHANGED << seq, idx, depth, response, taskIdx, cadIdx, cad_number, captcha,
                    dicts, all_data, data, saved, df, sends, redos, done_init, verif,
                    last_verified, consumed, rejected, challenge, dict_fetches,
                    steps, session, call, statuses, cookie_response >>

NextLegacy ==
    \/ send_request
    \/ send_request_returns
    \/ get_cookie

LegacySpec == InitLegacy /\ [][NextLegacy]_vars


\* ================================================================ claims
\* the declared order of the initialization steps (main.py:93-101)
InitOrder ==
    << "initial_response", "information_response", "object_type_codes_response",
       "land_category_codes_response", "land_permitted_usage_codes_response",
       "room_purpose_codes_response", "building_purpose_codes_response" >>

IsPrefix(s, t) == Len(s) <= Len(t) /\ s = SubSeq(t, 1, Len(s))

\* the thread is inside the captcha step of a parsing sequence
InGate == seq = "parsing" /\ idx = 1

\* the captcha step's execute has returned to send_requests
GateReturned == InGate /\ pc = "check"

C2_RedoSends ==
    /\ (seq = "parsing" /\ (idx = 2 \/ pc = "check")) => sends[1] = redos + 1
    /\ (seq = "parsing" /\ pc = "next_cad") => sends[2] = 1
    /\ (seq = "parsing" /\ idx = 1) => sends[2] = 0

C2_Witness ==
    seq = "parsing" /\ pc = "next_cad" /\ redos = 2 /\ sends[1] = 3 /\ sends[2] = 1

\* C3: whenever the captcha step returns to send_requests, the token is the
\* candidate of the last verification call of this gate cycle, and that call
\* was answered with success.
C3_GateReturnsVerifiedToken ==
    GateReturned =>
        /\ captcha \in Candidates
        /\ verif.candidate = captcha
        /\ verif.cad = cad_number
        /\ verif.status \in 200..299

C3_Witness == GateReturned /\ redos > 0 /\ last_verified = captcha

\* C4, as stated: the token is always unset or the candidate of the most recent
\* successful verification call.
C4_TokenAlwaysVerified == captcha = None \/ captcha = last_verified

\* C4, amended: the token is written when the recognizer returns a candidate,
\* before the verification call; outside the captcha step (neither executing
\* it nor stopped in it by an error) the token is unset or the candidate of
\* the most recent successful verification call.
C4_TokenVerifiedOutsideGate ==
    \/ captcha = None
    \/ captcha = last_verified
    \/ (InGate /\ pc \in {"execute", "after_request", "test_captcha", "error"})

C4_Witness ==
    pc = "test_captcha" /\ last_verified # None /\ captcha # last_verified

\* C5: a request of a parsing sequence is sent only after the seven
\* initialization steps have passed the status check in their declared order,
\* and the data-fetch POST is sent only after a successful verification call of
\* the same cadastral number's gate cycle.
C5_InitThenGateThenFetch ==
    [][ /\ IsPrefix(done_init', InitOrder)
        /\ (req' # NoRequest /\ seq' = "parsing") => done_init = InitOrder
        /\ (req' # NoRequest /\ req'.name = "on_response")
            => (verif.status \in 200..299 /\ verif.cad = req'.cad) ]_vars

C5_Witness == req.name = "on_response" /\ done_init = InitOrder

\* C6: a data-fetch request carries the candidate of the successful
\* verification call of its own cadastral number's gate cycle, and it is the
\* first data-fetch request sent since that verification.
C6_TokenConsumedOnce ==
    [][ (req' # NoRequest /\ req'.name = "on_response")
            => /\ req'.payload.captcha = verif.candidate
               /\ req'.payload.captcha = last_verified
               /\ verif.status \in 200..299
               /\ verif.cad = req'.cad
               /\ consumed = 0
               /\ consumed' = 1
               /\ sends[idx] = 0 ]_vars

C6_Witness ==
    req.name = "on_response" /\ taskIdx = 2 /\ cadIdx = 2 /\ consumed = 1

\* C7, as stated: a cache entry changes only in a step whose response has a 2xx
\* status; a dictionary step answered with any other status leaves it unchanged.
C7_CacheWrittenOnlyOn2xx ==
    [][ \A d \in DictNames :
            dicts'[d] # dicts[d] => response.status \in 200..299 ]_vars

\* C8, as stated: a record is appended to all_data only by a data-fetch step
\* whose response has a status in {200, 401}.
C8_NoRecordFromFailedFetch ==
    [][ Len(all_data') > Len(all_data) => response.status \in {200, 401} ]_vars

\* C9: once a fatal failure has happened no request is sent, no cadastral
\* number and no task is started and no table is written; the task in which
\* the failure happened has no output.
C9_FailureAbortsRun ==
    [][ /\ failed => (/\ req' = NoRequest
                      /\ saved' = saved
                      /\ cadIdx' = cadIdx
                      /\ taskIdx' = taskIdx)
        /\ failed' => \A i \in 1..Len(saved') : saved'[i] # taskIdx' ]_vars

C9_Witness ==
    failed /\ seq = "parsing" /\ taskIdx = 2 /\ cadIdx = 1 /\ saved = << 1 >>

\* C10, as stated: no error that reaches the caller is caused by a recognizer
\* that returned no usable string or by a verification call that failed.
C10_TransientNeverSurfaces ==
    err # None => cause \notin {"recognition_failed", "verification_failed"}

\* the negative outcomes of a gate cycle
NegativeOutcomes == {"challenge_status", "recognition_failed", "verification_failed"}

\* C11: every challenge image is passed to the recognizer at most once and is
\* behind at most one verification call, and a verification call is made only
\* for a challenge that has been recognized; so after a failed verification the
\* next verification call follows a new fetch and a new recognition.
C11_FreshChallengePerCall ==
    /\ challenge.recognized <= 1
    /\ challenge.verified <= challenge.recognized
    /\ pc = "test_captcha" => challenge = [recognized |-> 1, verified |-> 0]

C11_Witness ==
    /\ InGate /\ pc = "test_captcha"
    /\ verif # NoVerification /\ verif.status # 200
    /\ challenge = [recognized |-> 1, verified |-> 0]

C13_NegativeOutcomeNeverEndsGate ==
    (InGate /\ pc = "error") => cause \notin NegativeOutcomes

\* C14: every dictionary request is sent at most once in a run of start, all
\* five have been sent once when cadastral numbers are parsed, and a dictionary
\* request is sent only by the initialization sequence.
C14_DictionariesFetchedOnce ==
    /\ \A d \in DictNames : dict_fetches[d] <= 1
    /\ seq = "parsing" => \A d \in DictNames : dict_fetches[d] = 1
    /\ (req # NoRequest /\ seq = "parsing")
         => req.name \in {"get_captcha_response", "captcha_verification", "on_response"}

C14_Witness ==
    /\ pc = "next_task" /\ taskIdx = MaxTasks /\ cadIdx = MaxCads
    /\ \A d \in DictNames : dict_fetches[d] = 1

\* the step appends a record
Appends == Len(all_data') = Len(all_data) + 1

\* C15, as stated: the object type and the land category of a record are the
\* labels that the element's codes have in the object-type dictionary and in
\* the land-category dictionary, None when that dictionary has no pair with
\* the code; a label never comes from another dictionary.
C15_ResolvedInOwnDictionary ==
    [][ Appends =>
          LET element == response.body.items[1]
              record == all_data'[Len(all_data')]
          IN /\ record.objType =
                   get_value_by_code(element.objType,
                                     dicts["object_type_codes_dict"].items)
             /\ record.landCategory =
                   get_value_by_code(element.landCategory,
                                     dicts["land_category_codes_dict"].items) ]_vars

\* C16, as stated: the purpose of a record whose object type is building-like
\* is the label of the purpose code in the building-purpose dictionary, and the
\* purpose of a record whose object type is room-like is its label in the
\* room-purpose dictionary.
C16_PurposeByObjectType ==
    [][ Appends =>
          LET element == response.body.items[1]
              record == all_data'[Len(all_data')]
              obj_type == get_value_by_code(element.objType,
                                            dicts["object_type_codes_dict"].items)
          IN /\ obj_type \in BuildingLike =>
                   record.purpose =
                       get_value_by_code(element.purpose,
                                         dicts["building_purpose_codes_dict"].items)
             /\ obj_type \in RoomLike =>
                   record.purpose =
                       get_value_by_code(element.purpose,
                                         dicts["room_purpose_codes_dict"].items) ]_vars

\* the five cached lists are the empty lists of the class attributes
CachesEmpty == \A d \in DictNames : dicts[d] = Json("list", <<>>)

\* C17: with the five caches empty, process_on_response raises nothing and
\* appends for the element a record whose object type, purpose and land
\* category are None.
C17_EmptyCachesResolveToNone ==
    [][ (/\ pc = "after_request"
         /\ request_config.after_request_method = "process_on_response"
         /\ CachesEmpty
         /\ element_of(response.body.items) # <<>>)
        => LET element == response.body.items[1]
               record == all_data'[Len(all_data')]
           IN /\ pc' = "check" /\ err' = None
              /\ Appends
              /\ record.cadNumber = element.cadNumber
              /\ record.area = element.area
              /\ record.objType = None
              /\ record.purpose = None
              /\ record.landCategory = None ]_vars

C17_Witness ==
    /\ pc = "check" /\ CachesEmpty
    /\ response.body.items # <<>>
    /\ response.body.items[1].objType = "1"
    /\ response.body.items[1].purpose = "4"
    /\ response.body.items[1].landCategory = "1"
    /\ all_data[Len(all_data)].objType = None
    /\ all_data[Len(all_data)].purpose = None
    /\ all_data[Len(all_data)].landCategory = None

\* the step is add_all_data_to_dataframe on a non-empty buffer (the only place
\* where all_data is cleared)
Finalizes == all_data # <<>> /\ all_data' = <<>>

\* C18, as stated: an element with missing fields or unknown codes still gets
\* its record, and add_all_data_to_dataframe returns a table for every buffer
\* of such records, without raising.
C18_AnomaliesNeverRaise ==
    [][ /\ (/\ pc = "after_request"
            /\ request_config.after_request_method = "process_on_response"
            /\ \A d \in DictNames : dicts[d].kind = "list"
            /\ response.body.items # <<>>)
           => (Appends /\ err' = None)
        /\ Finalizes
           => (err' = None /\ df' # NoTable /\ Len(df'.rows) = Len(all_data)) ]_vars

\* C19, as stated: add_all_data_to_dataframe applied to the rows of the table
\* it produced returns that table again.
C19_FinalizeIdempotent ==
    (pc = "next_task" /\ df # NoTable)
        => AddTableToDataframe(df) = [error |-> None, tables |-> {df}]

\* the number, in hundredths, that an area string stands for
AreaValue(area) ==
    CASE area = "1234,56" -> 123456
      [] area = "45,3" -> 4530
      [] area = "120" -> 12000

\* C20, as stated: for every non-empty buffer add_all_data_to_dataframe returns
\* a table (a) with exactly the columns that are not None in every record,
\* (b) with every area as the number its string stands for, (c) in which the
\* areas do not increase and whose rows are the records of the buffer.
C20_FinalizedTable ==
    [][ Finalizes =>
          LET n == Len(all_data)
              perms == {p \in [1..n -> 1..n] : \A i, j \in 1..n : p[i] = p[j] => i = j}
          IN /\ pc' = "next_task" /\ err' = None
             /\ df'.columns = {f \in Fields : \E i \in 1..n : all_data[i][f] # None}
             /\ Len(df'.rows) = n
             /\ \A i, j \in 1..n :
                   (i < j /\ ~df'.rows[j].area.nan) =>
                       (/\ ~df'.rows[i].area.nan
                        /\ df'.rows[i].area.v >= df'.rows[j].area.v)
             /\ \E p \in perms : \A i \in 1..n :
                   /\ IF all_data[p[i]].area = None THEN df'.rows[i].area.nan
                      ELSE /\ ~df'.rows[i].area.nan
                           /\ df'.rows[i].area.v = AreaValue(all_data[p[i]].area)
                   /\ \A f \in Fields \ {"area"} :
                         df'.rows[i][f] = all_data[p[i]][f] ]_vars

\* the element of the end-to-end scenario
ExampleElement ==
    [cadNumber |-> "c1", status |-> "1", objType |-> "1", purpose |-> "1",
     landCategory |-> "1", area |-> "45,3",
     rights |-> << ExampleRight >>, encumbrances |-> <<>>]

\* process_on_response appends the record of the example element
AbsorbsExample ==
    Appends /\ response.body.items = << ExampleElement >>

\* C21, as stated: the record that process_on_response makes of the example
\* element has the status label for status "1", the rights text of the
\* template, and the number 45.3 as its area.
C21_AbsorbExample ==
    [][ AbsorbsExample =>
          LET record == all_data'[Len(all_data')]
          IN /\ record.status = "Aktualno"
             /\ record.rights = "Sobstvennost, 77-77/001 ot 01.01.2020"
             /\ record.area \notin STRING ]_vars

\* C21, amended: the record has the status label, the rights text and no
\* encumbrances text, and its area is still the string "45,3"; the number
\* 45.3 is the area of the record's row in the table that
\* add_all_data_to_dataframe returns.
C21_AbsorbExampleAreaText ==
    [][ /\ AbsorbsExample =>
              LET record == all_data'[Len(all_data')]
              IN /\ record.status = "Aktualno"
                 /\ record.rights = "Sobstvennost, 77-77/001 ot 01.01.2020"
                 /\ record.encumbrances = None
                 /\ record.area = "45,3"
        /\ (/\ pc = "next_cad" /\ pc' # "execute"
            /\ \E i \in 1..Len(all_data) : all_data[i] = ObjectInfo(ExampleElement))
           => /\ pc' = "next_task"
              /\ \E j \in 1..Len(df'.rows) :
                    /\ df'.rows[j].cadNumber = "c1"
                    /\ df'.rows[j].area = [nan |-> FALSE, v |-> 4530] ]_vars

C21_Witness ==
    /\ pc = "next_task" /\ df # NoTable /\ Len(df.rows) = 1
    /\ df.rows[1].rights = "Sobstvennost, 77-77/001 ot 01.01.2020"
    /\ df.rows[1].area = [nan |-> FALSE, v |-> 4530]

\* the dd.mm.yyyy of the days of Days
ExpectedDate ==
    [d \in Days |->
        CASE d = 0 -> "01.01.1970" [] d = 58 -> "28.02.1970" [] d = 59 -> "01.03.1970"
          [] d = 789 -> "29.02.1972" [] d = 10956 -> "31.12.1999"
          [] d = 11016 -> "29.02.2000" [] d = 18261 -> "31.12.2019"
          [] d = 18262 -> "01.01.2020" [] d = 18321 -> "29.02.2020"
          [] d = 18627 -> "31.12.2020" [] d = 18628 -> "01.01.2021"]

UtcDay(millis) == millis.sec \div 86400

\* C22: get_normal_date gives the dd.mm.yyyy of the UTC day of its argument:
\* "01.01.2021" for 1609459200000, one string for the timestamps of one day,
\* different strings for the last millisecond of a day and the first of the
\* next, and None for None.
C22_GetNormalDate ==
    [][ call'.fn = "get_normal_date" =>
          LET millis == call'.arg.date
              result == call'.result
          IN /\ millis.none => result = None
             /\ ~millis.none => result = ExpectedDate[UtcDay(millis)]
             /\ millis = Millis(1609459200, 0) => result = "01.01.2021"
             /\ (call.fn = "get_normal_date" /\ ~millis.none /\ ~call.arg.date.none)
                  => (UtcDay(call.arg.date) = UtcDay(millis) <=> call.result = result)
       ]_vars

C22_Witness ==
    /\ call.fn = "get_normal_date"
    /\ call.arg.date = Millis(1609459199, 999)
    /\ call.result = "31.12.2020"

\* C23, as stated: execute, with its before-method and after-method, changes
\* no field of a step object.
C23_StepsNotMutated ==
    [][ steps' = steps /\ data' = data /\ session' = session ]_vars

\* C23, amended: execute changes two fields of the step and no other: session,
\* which it sets to the session it was called with, and data, which the
\* before-method set_on_response_data replaces with the payload built from the
\* current cadastral number and captcha.
C23_OnlySessionAndDataChange ==
    [][ /\ steps' = steps
        /\ IF pc = "execute"
           THEN /\ session' = session \cup {request_config.name}
                /\ data' = IF request_config.before_request_method
                                  = "set_on_response_data"
                           THEN [filterType |-> "cadastral",
                                 cadNumbers |-> << cad_number >>,
                                 captcha |-> captcha]
                           ELSE data
           ELSE session' = session /\ data' = data ]_vars

C23_Witness ==
    /\ pc = "after_request" /\ request_config.name = "on_response"
    /\ taskIdx = 1 /\ cadIdx = 2
    /\ data.cadNumbers = << cad_number >> /\ data.captcha = captcha
    /\ captcha # None /\ "on_response" \in session

\* C24, as stated: every request sent while a step with use_proxies = False is
\* executed goes out without the session's proxy.
C24_NoProxyWhenDisabled ==
    (req # NoRequest /\ ~request_config.use_proxies) => req.proxies = "none"

\* C25: the buffer is empty when the parsing of a task begins; the
\* finalisation of a task leaves it empty whatever its outcome; the table of a
\* task has as many rows as the buffer had records, and the buffer never holds
\* more records than cadastral numbers of the current task were parsed.
C25_BufferDrainedPerTask ==
    [][ /\ (pc = "next_task" /\ pc' = "next_cad") => all_data = <<>>
        /\ (pc = "next_cad" /\ pc' # "execute") => all_data' = <<>>
        /\ (pc = "next_cad" /\ pc' = "next_task")
              => (df' # NoTable /\ Len(df'.rows) = Len(all_data))
        /\ Len(all_data') <= cadIdx' ]_vars

C25_Witness ==
    /\ pc = "next_task" /\ taskIdx = MaxTasks /\ Len(saved) = MaxTasks
    /\ df # NoTable /\ Len(df.rows) = 1 /\ all_data = <<>>

\* C26, as stated: a verification call answered with a 2xx status makes the
\* candidate verified (the captcha step returns), and one answered with any
\* other status does not.
C26_VerifiedIff2xx ==
    [][ (pc = "test_captcha" /\ err' # "ConnectionError")
            => (verif'.status \in 200..299 <=> pc' = "check") ]_vars

\* the step re-executes, or cannot because the stack is exhausted
Restarts ==
    \/ pc' = "execute" /\ redos' = redos + 1 /\ depth' = depth + 1
    \/ pc' = "error" /\ err' = "RecursionError"

\* C26, amended: a verification call answered with status 200 makes the
\* candidate verified; one answered with any other status, 2xx or not, makes it
\* incorrect, and the captcha step re-executes (or raises RecursionError when
\* the stack is exhausted).
C26_VerifiedIff200 ==
    [][ (pc = "test_captcha" /\ err' # "ConnectionError")
            => IF verif'.status = 200 THEN pc' = "check" ELSE Restarts ]_vars

C26_Witness ==
    InGate /\ pc = "execute" /\ verif.status = 201 /\ verif.candidate = captcha

\* C27, as stated: the recognizer is called for a challenge answered with a
\* status in {200, 401} and for no other.
C27_RestartIffNotAcceptable ==
    [][ (InGate /\ pc = "after_request")
            => (response.status \in successful_codes
                  <=> challenge'.recognized = challenge.recognized + 1) ]_vars

\* C27, amended: the recognizer is called for a challenge answered with
\* status 200 only; any other status, 401 included, restarts the fetch (or
\* raises RecursionError when the stack is exhausted) without a call of the
\* recognizer or of the verification endpoint.
C27_RestartIffNot200 ==
    [][ (InGate /\ pc = "after_request")
            => IF response.status = 200
               THEN challenge'.recognized = challenge.recognized + 1
               ELSE /\ challenge' = challenge
                    /\ req' = NoRequest
                    /\ captcha' = captcha
                    /\ Restarts ]_vars

C27_Witness ==
    InGate /\ pc = "execute" /\ response.status = 401 /\ redos > 0

\* C28: a transport error of any request stops the run at that request: no
\* request is sent after it and no later step is executed.
C28_TransportErrorIsFatal ==
    [][ /\ cause' = "transport"
           => (pc' = "error" /\ err' = "ConnectionError" /\ idx' = idx)
        /\ cause = "transport"
           => (pc' = "error" /\ req' = NoRequest /\ idx' = idx /\ sends' = sends) ]_vars

C28_Witness ==
    /\ pc = "error" /\ cause = "transport"
    /\ req.name = "captcha_verification" /\ redos > 0

\* C29: when the verification succeeded after any number of re-executions,
\* the response that reaches send_requests is the response of the last
\* challenge fetch, and its status is 200.
C29_GateReturnsLastFetch ==
    [][ (pc = "test_captcha" /\ pc' = "check")
            => (response' = response /\ response'.status = 200) ]_vars

C29_Witness ==
    GateReturned /\ redos = RecursionLimit /\ response.status = 200

\* C30: a step whose after-method is unset or names no callable sends one
\* request, returns its response and leaves token, caches and buffer unchanged.
C30_NoPostHookContinues ==
    [][ ~Callable(request_config.after_request_method) =>
          /\ pc \in {"execute", "after_request"}
                => (captcha' = captcha /\ dicts' = dicts /\ all_data' = all_data)
          /\ (pc = "execute" /\ pc' # "error") => sends'[idx] = 1
          /\ pc = "after_request"
                => (/\ pc' = "check" /\ err' = None
                    /\ response' = response
                    /\ req' = NoRequest /\ sends' = sends) ]_vars

C30_Witness ==
    /\ pc = "check" /\ request_config.after_request_method = "no_such_method"
    /\ sends[idx] = 1 /\ response.status = 200

\* the requests of the parsing of one cadastral number, as far as it has come
OneGateThenOneFetch ==
    seq = "parsing" =>
        /\ req # NoRequest => req.cad = cad_number
        /\ req.name = "on_response"
              => /\ idx = 2 /\ sends[2] = 1
                 /\ req.payload.cadNumbers = << cad_number >>
                 /\ req.payload.captcha = last_verified
        /\ idx = 1 => sends[2] = 0
        /\ idx = 2 => (sends[1] >= 1 /\ sends[2] <= 1 /\ captcha = last_verified)
        /\ (pc = "next_cad" /\ cadIdx > 0) => (sends[1] >= 1 /\ sends[2] = 1)

\* C31: the cadastral numbers of a task are parsed one after the other in list
\* order; each parsing sends the requests of the gate and then exactly one
\* data request, whose payload holds the one cadastral number being parsed.
C31_SequentialPerCadastralNumber ==
    [][ /\ OneGateThenOneFetch'
        /\ cadIdx' \notin {cadIdx, 0}
              => (cadIdx' = cadIdx + 1 /\ pc = "next_cad" /\ pc' = "execute"
                  /\ idx' = 1 /\ sends' = NoSends) ]_vars

C31_Witness ==
    /\ pc = "after_request" /\ req.name = "on_response" /\ req.cad = "c2"
    /\ taskIdx = MaxTasks /\ cadIdx = MaxCads /\ redos > 0

\* C32: the successful verification is the last request of the gate: until
\* the data request of the same cadastral number is sent, no challenge is
\* fetched, nothing is recognized and nothing is verified.
C32_NothingAfterVerified ==
    [][ /\ (InGate /\ pc = "test_captcha" /\ pc' = "check")
              => (verif'.status = 200 /\ verif'.candidate = captcha)
        /\ GateReturned
              => /\ pc' = "execute" /\ idx' = 2 /\ req' = NoRequest
                 /\ sends' = sends /\ challenge' = challenge /\ verif' = verif
                 /\ cad_number' = cad_number /\ captcha' = captcha
        /\ (seq = "parsing" /\ idx = 2 /\ pc = "execute")
              => /\ req'.name = "on_response" /\ req'.cad = cad_number
                 /\ req'.payload.captcha = verif.candidate
                 /\ sends'[1] = sends[1] /\ challenge' = challenge
                 /\ verif' = verif ]_vars

C32_Witness ==
    /\ seq = "parsing" /\ idx = 2 /\ pc = "after_request" /\ depth = 0
    /\ redos = RecursionLimit /\ req.name = "on_response"
    /\ req.payload.captcha = verif.candidate /\ verif.status = 200

\* process_on_response returns for a data request
Absorbs ==
    /\ pc = "after_request"
    /\ request_config.after_request_method = "process_on_response"
    /\ pc' = "check"

\* C33: a data request appends one record, built from the first entry of
\* 'elements', when that entry exists and is an object, and nothing otherwise;
\* the record goes to the end of the buffer, which never holds more records
\* than cadastral numbers were parsed.
C33_AtMostOneRecordPerFetch ==
    [][ Absorbs =>
          LET elements == response.body.items
          IN /\ IF elements # <<>> /\ elements[1] # Scalar
                THEN all_data' = Append(all_data, ObjectInfo(elements[1]))
                ELSE all_data' = all_data
             /\ Len(all_data') <= cadIdx' ]_vars

C33_Witness ==
    /\ pc = "check" /\ Len(response.body.items) = 2
    /\ response.body.items[1] # response.body.items[2]
    /\ response.body.items[2] # Scalar
    /\ Len(all_data) = 2
    /\ all_data[2] = ObjectInfo(response.body.items[1])

\* the text of an encumbrance without the date suffix
WithoutSuffix(a) == a.desc \o " " \o a.number

\* C34, as stated: format_encumbrances ends the text with " ot <date>" for
\* every start date that is present, the timestamp 0 included, and gives
\* "<type> <number>" when the start date is None.
C34_SuffixIffStartDate ==
    call.fn = "format_encumbrances" =>
        IF call.arg.date.none
        THEN call.result = WithoutSuffix(call.arg)
        ELSE call.result = WithoutSuffix(call.arg) \o " ot "
                               \o ExpectedDate[UtcDay(call.arg.date)]

\* the same for every timestamp but 0
SuffixIffTruthyStartDate ==
    call.fn = "format_encumbrances" =>
        IF call.arg.date.none \/ call.arg.date = Millis(0, 0)
        THEN call.result = WithoutSuffix(call.arg)
        ELSE call.result = WithoutSuffix(call.arg) \o " ot "
                               \o ExpectedDate[UtcDay(call.arg.date)]

\* one line per entry of a list of at most two, in list order
Lines(entries, format(_)) ==
    CASE Len(entries) = 0 -> None
      [] Len(entries) = 1 -> format(entries[1])
      [] Len(entries) = 2 -> format(entries[1]) \o "\n" \o format(entries[2])

\* C35: the rights text and the encumbrances text of a record have one line
\* per entry of the element's list, in list order, and are None for an empty
\* or missing list; the status label is "Aktualno" for the status "1" and
\* "Pogasheno" for every other status, a missing one included.
C35_TextsAndStatusLabel ==
    [][ Appends =>
          LET element == response.body.items[1]
              record == all_data'[Len(all_data')]
          IN /\ record.rights = Lines(element.rights, format_rights)
             /\ record.encumbrances = Lines(element.encumbrances, format_encumbrances)
             /\ (record.rights = None <=> element.rights = <<>>)
             /\ (record.encumbrances = None <=> element.encumbrances = <<>>)
             /\ record.status \in {"Aktualno", "Pogasheno"}
             /\ (record.status = "Aktualno" <=> element.status = "1") ]_vars

C35_Witness ==
    /\ pc = "check" /\ Len(all_data) = 2
    /\ all_data[1].status = "Pogasheno" /\ all_data[1].rights = None
    /\ all_data[2].status = "Pogasheno"
    /\ all_data[2].rights = "Sobstvennost, 77-77/001 ot 01.01.2020"
                               \o "\n" \o "Sobstvennost, 77-77/001 ot 01.01.2020"
    /\ all_data[2].encumbrances = "Ipoteka 77-77/002 ot 31.12.2020"
                                     \o "\n" \o "Arest 77-77/003"

\* a dictionary after-method returns
Populates ==
    /\ pc = "after_request"
    /\ request_config.after_request_method \in DOMAIN DictAttribute
    /\ pc' = "check"

\* C36: after _save_dict the cache entry of the key is the body of the
\* response and nothing else, whatever it held; the entries of the other keys
\* are unchanged; storing the body the entry already holds changes nothing.
C36_PopulateOverwrites ==
    [][ Populates =>
          LET key == DictAttribute[request_config.after_request_method]
          IN /\ dicts'[key] = response.body
             /\ \A d \in DictNames \ {key} : dicts'[d] = dicts[d]
             /\ dicts[key] = response.body => dicts' = dicts ]_vars

C36_Witness ==
    /\ pc = "check" /\ idx = 2
    /\ dict_fetches["object_type_codes_dict"] = 2
    /\ dicts["object_type_codes_dict"] = response.body
    /\ response.body.items # <<>>

\* C37, as stated: the finalisation of a task whose buffer is empty does not
\* fail, and the run goes on to the next task.
C37_EmptyTaskCompletes ==
    [][ (pc = "next_cad" /\ pc' # "execute" /\ cadIdx >= 1 /\ all_data = <<>>)
            => (pc' = "next_task" /\ err' = None) ]_vars

\* C38: execute of a step whose method is neither GET nor POST in any case of
\* letters raises ValueError after the before-method has run: no request is
\* sent, no after-method runs, and what the before-method wrote stays; a
\* method that is GET or POST in any case raises no ValueError.
C38_UnsupportedMethod ==
    [][ pc = "execute" =>
          IF request_config.method \in {"GET", "POST", "get", "post"}
          THEN err' # "ValueError" /\ req'.name = request_config.name
          ELSE /\ pc' = "error" /\ err' = "ValueError"
               /\ req' = NoRequest /\ sends' = sends /\ response' = response
               /\ captcha' = captcha /\ dicts' = dicts /\ all_data' = all_data
               /\ challenge' = challenge
               /\ session' = session \cup {request_config.name}
               /\ data' = IF request_config.before_request_method
                                 = "set_on_response_data"
                          THEN [filterType |-> "cadastral",
                                cadNumbers |-> << cad_number >>,
                                captcha |-> captcha]
                          ELSE data ]_vars

C38_Witness ==
    /\ pc = "error" /\ err = "ValueError" /\ idx = 1
    /\ request_config.method = "PUT"
    /\ request_config.before_request_method = "set_on_response_data"
    /\ request_config.after_request_method = "process_on_response"
    /\ data.cadNumbers = << cad_number >> /\ sends[1] = 0 /\ all_data = <<>>

\* C39, as stated: whenever send_request returns, after any number of
\* retries, the caller receives the response with the acceptable status.
C39_ReturnsAcceptableResponse ==
    pc = "get_cookie"
        => /\ cookie_response = response
           /\ cookie_response.status = statuses[Len(statuses)]
           /\ cookie_response.status \in {200, 401, 406}

\* the same for a call that needed no retry
ReturnsFirstAcceptableResponse ==
    (pc = "get_cookie" /\ Len(statuses) = 1)
        => /\ cookie_response = response
           /\ cookie_response.status \in {200, 401, 406}

====
